---- MODULE Spec2Model ----
(***************************************************************************)
(* A model of operate.py: the process-wide 'Operator' logger, the lazy     *)
(* subprocess runner Operator.shell, the runtime detector, the settings    *)
(* object and initialize_operator.                                         *)
(*                                                                         *)
(* Python functions are operators over a "world" record w that holds the   *)
(* mutable state of the interpreter process; every operator returns        *)
(*   [w |-> the world afterwards, exc |-> the exception raised or None,    *)
(*    val |-> the value returned].                                         *)
(* The actions are the calls a client of the module can make.              *)
(***************************************************************************)
EXTENDS Integers, Sequences, FiniteSets, TLC

\* ---------------------------------------------------------------- bounds
MaxCalls == 3          \* client calls per behaviour
MaxGens == 2           \* generator objects a client holds at once
MaxObjs == 1           \* settings objects a client constructs
MaxLoads == 1          \* settings files a client loads
MaxNegVerbosity == 1   \* how far below zero the verbosity arguments tried go
MaxVerbosity == 4      \* largest verbosity argument tried

\* ----------------------------------------------------- logging severities
DEBUG == 10
INFO == 20
WARNING == 30
ERROR == 40

None == "None"
NoVerbosity == <<>>                 \* verbosity=None
Verbosity(v) == <<v>>               \* verbosity=v
Verbosities == (0 - MaxNegVerbosity)..MaxVerbosity

Min(a, b) == IF a < b THEN a ELSE b

VARIABLES
  devlog,      \* host: /dev/log exists
  dockerBin,   \* host: what `which docker` finds: "absent", "real", "link"
  podmanBin,   \* host: what `which podman` finds
  sdkRet,      \* host: exit code of the operator-sdk commands
  loggers,     \* logging's registry: sequence of [name, level, handlers]
  log,         \* records handed to the logger: [sev, msg, sinks]
  gens,        \* generator objects made by shell(): [cmd, fail, pc, ...]
  procs,       \* child processes spawned: [cmd, state, pos]
  objs,        \* Operator objects allocated: [attrs, n, exc, ...]
  loads,       \* Operator.load calls made: [doc, exc, attrs]
  returned,    \* the logger handles get_logger has returned to clients, in order
  status,      \* "running" or "exited" (the interpreter process)
  exitCode,    \* the status the process exited with
  calls        \* number of client calls made

host == <<devlog, dockerBin, podmanBin, sdkRet>>
vars == <<devlog, dockerBin, podmanBin, sdkRet, loggers, log, gens, procs,
          objs, loads, returned, status, exitCode, calls>>

\* The mutable state of the process as one record.
World ==
  [loggers |-> loggers, log |-> log, gens |-> gens, procs |-> procs,
   status |-> status, exitCode |-> exitCode]

Ret(w, exc, val) == [w |-> w, exc |-> exc, val |-> val]

\* -------------------------------------------------------------- messages
\* A log message: the format string's tag and the values interpolated.
Msg(tag, cmd, n, line) == [tag |-> tag, cmd |-> cmd, n |-> n, line |-> line]

\* ------------------------------------------------------------ the logger
\* logging.getLogger(name): one logger object per name, made on first use.
getLogger(reg, name) ==
  IF \E i \in 1..Len(reg) : reg[i].name = name
  THEN [reg |-> reg, id |-> CHOOSE i \in 1..Len(reg) : reg[i].name = name]
  ELSE [reg |-> Append(reg, [name |-> name, level |-> 0, handlers |-> <<>>]),
        id |-> Len(reg) + 1]

\* The threshold computed without the cap at verbosity 3.
consoleLevel_uncapped(v) == 40 - (v * 10)

\* The threshold computed with the cap at verbosity 4 instead of 3.
consoleLevel_cap4(v) == 40 - (Min(4, v) * 10)

\* stderr.setLevel(40 - (min(3, verbosity) * 10))
consoleLevel(v) == 40 - (Min(3, v) * 10)

\* get_logger without the test that the sinks are already installed.
get_logger_unguarded(w, verbosity) ==
  LET g == getLogger(w.loggers, "Operator")
      id == g.id
      hs == g.reg[id].handlers
      stderr == [kind |-> "stderr",
                 level |-> IF verbosity # NoVerbosity
                           THEN consoleLevel(verbosity[1]) ELSE 40]
      syslog == [kind |-> "syslog", level |-> INFO]
      hs1 == IF devlog THEN hs \o <<stderr, syslog>> ELSE hs \o <<stderr>>
  IN Ret([w EXCEPT !.loggers =
            [g.reg EXCEPT ![id].level = DEBUG, ![id].handlers = hs1]],
         None, id)

\* get_logger setting the threshold of the last sink, not of handlers[0],
\* when the sinks are already installed.
get_logger_lastsink(w, verbosity) ==
  LET g == getLogger(w.loggers, "Operator")
      id == g.id
      hs == g.reg[id].handlers
      stderr == [kind |-> "stderr",
                 level |-> IF verbosity # NoVerbosity
                           THEN consoleLevel(verbosity[1]) ELSE 40]
      syslog == [kind |-> "syslog", level |-> INFO]
      hs1 == IF Len(hs) = 0
             THEN IF devlog THEN <<stderr, syslog>> ELSE <<stderr>>
             ELSE IF verbosity # NoVerbosity
             THEN [hs EXCEPT ![Len(hs)].level = consoleLevel(verbosity[1])]
             ELSE hs
  IN Ret([w EXCEPT !.loggers =
            [g.reg EXCEPT ![id].level = DEBUG, ![id].handlers = hs1]],
         None, id)

\* Operator.get_logger(self, verbosity): the body, once the call is bound.
get_logger(w, verbosity) ==
  LET g == getLogger(w.loggers, "Operator")
      id == g.id
      hs == g.reg[id].handlers
      stderr == [kind |-> "stderr",
                 level |-> IF verbosity # NoVerbosity
                           THEN consoleLevel(verbosity[1]) ELSE 40]
      syslog == [kind |-> "syslog", level |-> INFO]
      hs1 == IF Len(hs) = 0
             THEN IF devlog THEN <<stderr, syslog>> ELSE <<stderr>>
             ELSE IF verbosity # NoVerbosity
             THEN [hs EXCEPT ![1].level = consoleLevel(verbosity[1])]
             ELSE hs
  IN Ret([w EXCEPT !.loggers =
            [g.reg EXCEPT ![id].level = DEBUG, ![id].handlers = hs1]],
         None, id)

\* A call of get_logger through the class (cls.get_logger(...),
\* Operator.get_logger(...)): get_logger is a plain function there, so the
\* positional arguments bind to (self, verbosity) in that order and a call
\* without arguments raises TypeError (missing 'self').
get_logger_via_class(w, args) ==
  IF Len(args) = 0 THEN Ret(w, "TypeError", None)
  ELSE IF Len(args) = 1 THEN get_logger(w, NoVerbosity)
  ELSE get_logger(w, Verbosity(args[2]))

\* logger.debug / .warning / .error on the logger with handle id: the record
\* passes the logger's own level and reaches the sinks whose threshold allows.
emit(w, id, sev, msg) ==
  LET lg == w.loggers[id]
      sinks == {lg.handlers[i].kind : i \in
                   {j \in 1..Len(lg.handlers) : sev >= lg.handlers[j].level}}
  IN IF sev >= lg.level
     THEN [w EXCEPT !.log = Append(@, [sev |-> sev, msg |-> msg, sinks |-> sinks])]
     ELSE w

\* main(verbose): the click group callback.
main(w, verbose) ==
  LET Logged2(w1, logger) ==
        Ret(emit(w1, logger, DEBUG, Msg("verbose", <<>>, verbose, <<>>)), None, None)
      Logged1(r) ==
        Logged2(emit(r.w, r.val, DEBUG, Msg("argv", <<>>, 0, <<>>)), r.val)
  IN Logged1(get_logger_via_class(w, <<verbose>>))

\* ------------------------------------------------------ external commands
\* A command line, as shlex.split hands it to Popen: a sequence of words.
WhichDocker == <<"which", "docker">>
WhichPodman == <<"which", "podman">>
\* "operator-sdk init --plugins=ansible --domain={}".format(domain)
InitCmd(domain) ==
  <<"operator-sdk", "init", "--plugins=ansible", "--domain=", domain>>
\* "operator-sdk create api --group={} --version={} --kind={}".format(...)
CreateApiCmd(group, version, kind) ==
  <<"operator-sdk", "create", "api", "--group=", group, "--version=", version,
    "--kind=", kind>>

\* What the host's binaries print (stdout and stderr merged), one raw line
\* per element, a line being a sequence of byte chunks ending in "\n".
DockerPath == <<"/usr/bin", "/docker">>
PodmanPath == <<"/usr/bin", "/podman">>
hostOut(cmd) ==
  IF cmd = WhichDocker
  THEN IF dockerBin = "absent" THEN << <<"which: no docker in (", "/usr/bin", ")", "\n">> >>
       ELSE << DockerPath \o <<"\n">> >>
  ELSE IF cmd = WhichPodman
  THEN IF podmanBin = "absent" THEN << <<"which: no podman in (", "/usr/bin", ")", "\n">> >>
       ELSE << PodmanPath \o <<"\n">> >>
  ELSE << <<"INFO", " ", "\n">>, <<"done", "\n">> >>

hostRet(cmd) ==
  IF cmd = WhichDocker THEN (IF dockerBin = "absent" THEN 1 ELSE 0)
  ELSE IF cmd = WhichPodman THEN (IF podmanBin = "absent" THEN 1 ELSE 0)
  ELSE sdkRet

\* os.path.islink(path)
islink(path) ==
  \/ path = DockerPath /\ dockerBin = "link"
  \/ path = PodmanPath /\ podmanBin = "link"

\* str.endswith(suffix), for a suffix that is one chunk
endswith(line, suffix) == Len(line) > 0 /\ line[Len(line)] = suffix

\* ------------------------------------------------------ the process runner
Whitespace == {" ", "\n", "\t"}

\* Operator._utf8ify: decode and strip the whitespace at the end.
RECURSIVE rstrip(_)
rstrip(line) ==
  IF Len(line) > 0 /\ line[Len(line)] \in Whitespace
  THEN rstrip(SubSeq(line, 1, Len(line) - 1))
  ELSE line

_utf8ify(line_bytes) == rstrip(line_bytes)

\* The lines a command's output decodes to.
Decoded(cmd) == [i \in 1..Len(hostOut(cmd)) |-> _utf8ify(hostOut(cmd)[i])]

\* shell spawning the child when it is called, not at the first next().
shell_eager(w, cmd, fail) ==
  Ret([w EXCEPT !.procs = Append(@, [cmd |-> cmd, state |-> "running", pos |-> 0]),
                !.gens = Append(@, [cmd |-> cmd, fail |-> fail, pc |-> "created",
                                    proc |-> Len(w.procs) + 1, logger |-> 0,
                                    yielded |-> <<>>, exc |-> None])],
      None, Len(w.gens) + 1)

\* Calling shell(cmd, fail) makes a generator object; no line of the body
\* runs until the first next().
shell(w, cmd, fail) ==
  Ret([w EXCEPT !.gens = Append(@, [cmd |-> cmd, fail |-> fail, pc |-> "created",
                                    proc |-> 0, logger |-> 0, yielded |-> <<>>,
                                    exc |-> None])],
      None, Len(w.gens) + 1)

\* The generator finishes by raising exc (StopIteration when it returns).
Finish(w, g, exc) == Ret([w EXCEPT !.gens[g].pc = "done", !.gens[g].exc = exc], exc, None)

\* The loop over proc.stdout.readline and what follows it.
shell_loop(w, g) ==
  LET gen == w.gens[g]
      p == gen.proc
      out == hostOut(gen.cmd)
      pos == w.procs[p].pos
  IN IF pos < Len(out)
     THEN LET line == _utf8ify(out[pos + 1])
              yield(w2) == Ret([w2 EXCEPT !.gens[g].pc = "yielded",
                                          !.gens[g].yielded = Append(@, line)],
                               None, line)
          IN yield(emit([w EXCEPT !.procs[p].pos = pos + 1], gen.logger, DEBUG,
                        Msg("Line", gen.cmd, 0, line)))
     ELSE LET ret == hostRet(gen.cmd)
              w1 == [w EXCEPT !.procs[p].state = "waited"]
              exit(w2) == [w2 EXCEPT !.status = "exited", !.exitCode = ret]
          IN IF gen.fail /\ ret # 0
             THEN Finish(exit(emit(w1, gen.logger, ERROR,
                                   Msg("Command errored", gen.cmd, 0, <<>>))),
                         g, "SystemExit")
             ELSE IF ret # 0
             THEN Finish(emit(w1, gen.logger, WARNING,
                              Msg("Command returned", gen.cmd, ret, <<>>)),
                         g, "StopIteration")
             ELSE Finish(w1, g, "StopIteration")

\* next() on the generator g: run the body of shell up to the next yield.
shell_next(w, g) ==
  LET gen == w.gens[g]
      Popen(w1, logger) ==
        [w1 EXCEPT !.procs = Append(@, [cmd |-> gen.cmd, state |-> "running",
                                        pos |-> 0]),
                   !.gens[g].proc = Len(w1.procs) + 1,
                   !.gens[g].logger = logger]
      Start(lg) ==
        IF lg.exc # None THEN Finish(lg.w, g, lg.exc)
        ELSE shell_loop(Popen(emit(lg.w, lg.val, DEBUG,
                                   Msg("Running", gen.cmd, 0, <<>>)),
                              lg.val),
                        g)
  IN IF gen.pc \in {"done", "closed"} THEN Ret(w, "StopIteration", None)
     ELSE IF gen.pc = "yielded" THEN shell_loop(w, g)
     ELSE Start(get_logger_via_class(w, <<>>))

\* Dropping the last reference to a generator closes it: the body is not
\* resumed (shell has no finally), the child is not waited for.
close(w, g) ==
  IF w.gens[g].pc \in {"created", "yielded"}
  THEN [w EXCEPT !.gens[g].pc = "closed"]
  ELSE w

\* ------------------------------------------------------ the runtime detector
\* for line in <generator g>: if line.endswith(suffix) and not islink(line):
\* return.  val is TRUE when the loop returned on a line, FALSE when it ran out.
RECURSIVE scan(_, _, _)
scan(w, g, suffix) ==
  LET Body(r) ==
        IF r.exc = "StopIteration" THEN Ret(r.w, None, FALSE)
        ELSE IF r.exc # None THEN r
        ELSE IF endswith(r.val, suffix) /\ ~islink(r.val)
        THEN Ret(close(r.w, g), None, TRUE)
        ELSE scan(r.w, g, suffix)
  IN Body(shell_next(w, g))

_determine_runtime(w) ==
  LET Probe(g, suffix) == scan(g.w, g.val, suffix)
      AfterPodman(s2) ==
        IF s2.exc # None THEN Ret(s2.w, s2.exc, None)
        ELSE IF s2.val THEN Ret(s2.w, None, "podman")
        ELSE Ret(s2.w, "RuntimeError", None)
      AfterDocker(s1) ==
        IF s1.exc # None THEN Ret(s1.w, s1.exc, None)
        ELSE IF s1.val THEN Ret(s1.w, None, "docker")
        ELSE AfterPodman(Probe(shell(s1.w, WhichPodman, FALSE), "/podman"))
  IN AfterDocker(Probe(shell(w, WhichDocker, FALSE), "/docker"))

\* ------------------------------------------------------- the settings object
\* Operator.__init__: val is the attribute dictionary of self as the
\* constructor leaves it, also when it raises.
__init__(w, args) ==
  LET self == [image |-> args.image, version |-> args.version,
               channels |-> args.channels, kinds |-> args.kinds,
               default_sample |-> args.default_sample, domain |-> args.domain,
               group |-> args.group, api_version |-> args.api_version]
      SetLogger(lg, attrs) == Ret(lg.w, None, ("logger" :> lg.val) @@ attrs)
      SetRuntime(rt) ==
        IF rt.exc # None THEN Ret(rt.w, rt.exc, self)
        ELSE SetLogger(get_logger(rt.w, args.verbosity), ("runtime" :> rt.val) @@ self)
  IN SetRuntime(_determine_runtime(w))

\* settings.get(key): None for a key the document does not have.
Get(settings, key) == IF key \in DOMAIN settings THEN settings[key] ELSE None

\* Operator.load, for a file that parses to the mapping settings: val.entered
\* tells whether the constructor was entered, val.attrs is the object's
\* attribute dictionary then.
load(w, settings) ==
  LET Construct(r) == Ret(r.w, r.exc, [entered |-> TRUE, attrs |-> r.val])
      Parsed(w1) ==
        Construct(__init__(w1, [image |-> Get(settings, "image"),
                                version |-> Get(settings, "version"),
                                channels |-> Get(settings, "channels"),
                                kinds |-> Get(settings, "kinds"),
                                default_sample |-> Get(settings, "default-sample"),
                                domain |-> Get(settings, "domain"),
                                group |-> Get(settings, "group"),
                                api_version |-> Get(settings, "api-version"),
                                initialized |-> FALSE,
                                verbosity |-> NoVerbosity]))
      Debug2(w1, logger) ==
        Parsed(emit(w1, logger, DEBUG, Msg("settings", <<>>, 0, <<>>)))
      Opened(lg) ==
        IF lg.exc # None
        THEN Ret(lg.w, lg.exc, [entered |-> FALSE, attrs |-> <<>>])
        ELSE Debug2(emit(lg.w, lg.val, DEBUG, Msg("Recovered settings:", <<>>, 0, <<>>)),
                    lg.val)
  IN Opened(get_logger_via_class(w, <<>>))

\* [self.shell("operator-sdk create api ...") for kind in self.kinds]: one
\* generator object per kind, in the order of the list; val is their handles.
RECURSIVE create_api_gens(_, _, _, _)
create_api_gens(w, self, i, made) ==
  IF i > Len(self.kinds) THEN Ret(w, None, made)
  ELSE LET Made(g) == create_api_gens(g.w, self, i + 1, Append(made, g.val))
       IN Made(shell(w, CreateApiCmd(self.group, self.version, self.kinds[i]), TRUE))

RECURSIVE close_all(_, _, _)
close_all(w, gs, i) ==
  IF i > Len(gs) THEN w ELSE close_all(close(w, gs[i]), gs, i + 1)

\* Operator.initialize_operator: val is self's attribute dictionary afterwards.
\* Both assignments to _ only bind generator objects, which are dropped
\* without ever being iterated.
initialize_operator(w, self) ==
  IF "initialized" \notin DOMAIN self THEN Ret(w, "AttributeError", self)
  ELSE IF self.initialized THEN Ret(w, None, self)
  ELSE LET Drop(g0, gl) ==
             Ret(close_all(close(gl.w, g0), gl.val, 1), None,
                 ("initialized" :> TRUE) @@ self)
           Rest(g0) == Drop(g0.val, create_api_gens(g0.w, self, 1, <<>>))
       IN Rest(shell(w, InitCmd(self.domain), TRUE))

\* ---------------------------------------------------------------- actions
Commit(w) ==
  /\ loggers' = w.loggers
  /\ log' = w.log
  /\ gens' = w.gens
  /\ procs' = w.procs
  /\ status' = w.status
  /\ exitCode' = w.exitCode

CanCall == status = "running" /\ calls < MaxCalls

\* The arguments a client passes to Operator.get_logger (no instance exists
\* to call it on, so the receiver is passed explicitly, as main does).
GetLoggerArgs == {<<>>, <<0>>} \cup {<<0, v>> : v \in Verbosities}

Call_get_logger(args) ==
  /\ CanCall
  /\ LET r == get_logger_via_class(World, args)
     IN /\ Commit(r.w)
        /\ returned' = IF r.exc = None THEN Append(returned, r.val) ELSE returned
  /\ calls' = calls + 1
  /\ UNCHANGED <<host, objs, loads>>

\* The command-line entry point runs once per process, with -v given n times.
Call_main(n) ==
  /\ CanCall
  /\ \A i \in 1..Len(log) : log[i].msg.tag # "argv"
  /\ Commit(main(World, n).w)
  /\ calls' = calls + 1
  /\ UNCHANGED <<host, objs, loads, returned>>

\* The commands a client runs through Operator.shell directly.
ClientCommands == {WhichDocker, InitCmd("example.com")}

Call_shell(cmd, fail) ==
  /\ CanCall
  /\ Len(gens) < MaxGens
  /\ Commit(shell(World, cmd, fail).w)
  /\ calls' = calls + 1
  /\ UNCHANGED <<host, objs, loads, returned>>

\* The client asks the generator g for its next element.
Call_next(g) ==
  /\ CanCall
  /\ gens[g].pc \in {"created", "yielded"}
  /\ Commit(shell_next(World, g).w)
  /\ calls' = calls + 1
  /\ UNCHANGED <<host, objs, loads, returned>>

\* The keyword arguments a client constructs a settings object with.
KindLists == {<<>>, <<"Foo", "Bar">>}
CtorArgs ==
  [image : {"quay.io/img"}, version : {"0.1.0"}, channels : {<<"alpha">>},
   kinds : KindLists, default_sample : {None}, domain : {"example.com"},
   group : {"apps"}, api_version : {"v1alpha1"}, initialized : BOOLEAN,
   verbosity : {NoVerbosity}]

\* What one call of o.initialize_operator() did, for the record kept in objs.
InitCall(before, r, selfBefore) ==
  [exc |-> r.exc,
   issued |-> [i \in 1..(Len(r.w.gens) - Len(before.gens)) |->
                 r.w.gens[Len(before.gens) + i].cmd],
   spawned |-> [i \in 1..(Len(r.w.procs) - Len(before.procs)) |->
                  r.w.procs[Len(before.procs) + i].cmd],
   changed |-> (r.w # before \/ r.val # selfBefore)]

\* A client evaluates o = Operator(**args) and then calls
\* o.initialize_operator() n times; an exception ends the sequence.
Call_Operator(args, n) ==
  /\ CanCall
  /\ Len(objs) < MaxObjs
  /\ LET Done(r, constructed, inits) ==
           /\ Commit(r.w)
           /\ objs' = Append(objs, [attrs |-> r.val, args |-> args, n |-> n,
                                    constructed |-> constructed, exc |-> r.exc,
                                    inits |-> inits])
         Second(r1, r2, first) ==
           Done(r2, TRUE, <<first, InitCall(r1.w, r2, r1.val)>>)
         First(c, r1) ==
           IF r1.exc = None /\ n >= 2
           THEN Second(r1, initialize_operator(r1.w, r1.val), InitCall(c.w, r1, c.val))
           ELSE Done(r1, TRUE, <<InitCall(c.w, r1, c.val)>>)
         Constructed(c) ==
           IF c.exc = None /\ n >= 1
           THEN First(c, initialize_operator(c.w, c.val))
           ELSE Done(c, c.exc = None, <<>>)
     IN Constructed(__init__(World, args))
  /\ calls' = calls + 1
  /\ UNCHANGED <<host, loads, returned>>

\* The documents a client loads: one with the key image only, one with every
\* recognized key.
Docs ==
  {("image" :> "foo"),
   ("image" :> "quay.io/img") @@ ("version" :> "0.1.0")
     @@ ("channels" :> <<"alpha">>) @@ ("kinds" :> <<"Foo", "Bar">>)
     @@ ("default-sample" :> "foo.yml") @@ ("domain" :> "example.com")
     @@ ("group" :> "apps") @@ ("api-version" :> "v1alpha1")}

\* A client evaluates Operator.load(file), file parsing to the mapping doc.
Call_load(doc) ==
  /\ CanCall
  /\ Len(loads) < MaxLoads
  /\ LET Done(r) ==
           /\ Commit(r.w)
           /\ loads' = Append(loads, [doc |-> doc, exc |-> r.exc,
                                      attrs |-> r.val.attrs])
           /\ objs' = IF r.val.entered
                      THEN Append(objs, [attrs |-> r.val.attrs, n |-> 0,
                                         args |-> [initialized |-> FALSE],
                                         constructed |-> (r.exc = None),
                                         exc |-> r.exc, inits |-> <<>>])
                      ELSE objs
     IN Done(load(World, doc))
  /\ calls' = calls + 1
  /\ UNCHANGED <<host, returned>>

\* The hosts tried: with and without /dev/log, each of docker and podman
\* absent, a real binary or a symbolic link, operator-sdk succeeding or failing.
Hosts ==
  {<<TRUE, "real", "absent", 0>>, <<FALSE, "link", "real", 7>>,
   <<TRUE, "absent", "real", 0>>, <<FALSE, "absent", "link", 7>>,
   <<TRUE, "absent", "absent", 7>>, <<FALSE, "real", "real", 0>>}

Init ==
  /\ \E h \in Hosts :
        /\ devlog = h[1]
        /\ dockerBin = h[2]
        /\ podmanBin = h[3]
        /\ sdkRet = h[4]
  /\ loggers = <<>>
  /\ log = <<>>
  /\ gens = <<>>
  /\ procs = <<>>
  /\ objs = <<>>
  /\ loads = <<>>
  /\ returned = <<>>
  /\ status = "running"
  /\ exitCode = 0
  /\ calls = 0

Next ==
  \/ \E args \in GetLoggerArgs : Call_get_logger(args)
  \/ \E n \in 0..MaxVerbosity : Call_main(n)
  \/ \E cmd \in ClientCommands, fail \in BOOLEAN : Call_shell(cmd, fail)
  \/ \E g \in 1..Len(gens) : Call_next(g)
  \/ \E args \in CtorArgs, n \in 0..2 : Call_Operator(args, n)
  \/ \E doc \in Docs : Call_load(doc)

\* ------------------------------------------------------------------ claims
Gens == 1..Len(gens)
Objs == 1..Len(objs)
Consumed(g) == gens[g].pc = "done"
Logged(sev, tag, cmd) ==
  \E i \in 1..Len(log) :
     log[i].sev = sev /\ log[i].msg.tag = tag /\ log[i].msg.cmd = cmd

\* C1: when a command run with fail=True exits with a code c # 0 and the
\* caller has consumed the whole sequence, an ERROR line citing the command
\* has been logged and the process has terminated with status c.
C1_FatalExitOnFailure ==
  \A g \in Gens :
     (Consumed(g) /\ gens[g].fail /\ hostRet(gens[g].cmd) # 0)
        => /\ Logged(ERROR, "Command errored", gens[g].cmd)
           /\ status = "exited"
           /\ exitCode = hostRet(gens[g].cmd)

\* C2: when a command run with fail=False exits with a code c # 0 and the
\* caller has consumed the whole sequence, the sequence has yielded every
\* line the command produced, a WARNING line citing the command and the code
\* is the last record logged for it, and the process has not terminated.
C2_WarningOnFailure ==
  \A g \in Gens :
     (Consumed(g) /\ ~gens[g].fail /\ hostRet(gens[g].cmd) # 0)
        => /\ gens[g].yielded = Decoded(gens[g].cmd)
           /\ \E i \in 1..Len(log) :
                 /\ log[i].sev = WARNING
                 /\ log[i].msg.tag = "Command returned"
                 /\ log[i].msg.cmd = gens[g].cmd
                 /\ log[i].msg.n = hostRet(gens[g].cmd)
                 /\ \A j \in 1..Len(log) :
                       (log[j].msg.tag = "Line" /\ log[j].msg.cmd = gens[g].cmd) => j < i
           /\ status = "running"

\* C3: when a command exits with code 0 and the caller has consumed the whole
\* sequence, the sequence has yielded exactly the lines the command produced,
\* in order, it ended normally, no ERROR or WARNING line has been logged for
\* the command and the process has not terminated, whatever fail is.
C3_ZeroExitYieldsAllLines ==
  \A g \in Gens :
     (Consumed(g) /\ hostRet(gens[g].cmd) = 0)
        => /\ gens[g].yielded = Decoded(gens[g].cmd)
           /\ gens[g].exc = "StopIteration"
           /\ ~Logged(ERROR, "Command errored", gens[g].cmd)
           /\ ~Logged(WARNING, "Command returned", gens[g].cmd)
           /\ status = "running"

\* The host has a container runtime the detector accepts.
RuntimeUsable == dockerBin = "real" \/ podmanBin = "real"

IsInitCmd(cmd) == cmd[1] = "operator-sdk" /\ cmd[2] = "init"
IsCreateApiCmd(cmd, kind) ==
  cmd[1] = "operator-sdk" /\ cmd[2] = "create" /\ cmd[Len(cmd)] = kind
\* cmds is the project-init command followed by one create-api per kind
IsScaffolding(cmds, kinds) ==
  /\ Len(cmds) = 1 + Len(kinds)
  /\ IsInitCmd(cmds[1])
  /\ \A i \in 1..Len(kinds) : IsCreateApiCmd(cmds[i + 1], kinds[i])

\* C4: on a host with a usable container runtime, when initialize_operator is
\* called twice in sequence on a settings object, the first call runs the
\* scaffolding commands (project init, then one create-api per kind) and the
\* second call spawns no subprocess and changes no state.
C4_SecondInitializeIsNoOp ==
  \A o \in Objs :
     (objs[o].n = 2 /\ RuntimeUsable /\ ~objs[o].args.initialized)
        => /\ Len(objs[o].inits) = 2
           /\ IsScaffolding(objs[o].inits[1].spawned, objs[o].args.kinds)
           /\ objs[o].inits[2].spawned = <<>>
           /\ ~objs[o].inits[2].changed

\* C5: a settings object has an initialized flag, which is false from
\* construction by default and is true only after an initialize_operator
\* call that ran the project-init command and every create-api command.
C5_InitializedFlag ==
  \A o \in Objs :
     /\ "initialized" \in DOMAIN objs[o].attrs
     /\ (~objs[o].args.initialized /\ objs[o].inits = <<>>)
           => objs[o].attrs.initialized = FALSE
     /\ (~objs[o].args.initialized /\ objs[o].attrs.initialized)
           => /\ objs[o].inits # <<>>
              /\ IsScaffolding(objs[o].inits[1].spawned, objs[o].args.kinds)

\* C6: when initialize_operator is called on a host with a usable container
\* runtime whose operator-sdk commands exit with a code c # 0, the process has
\* terminated with status c,
\* only the project-init command was started and initialized is not true.
C6_InitializeFailureIsFatal ==
  \A o \in Objs :
     (objs[o].n >= 1 /\ RuntimeUsable /\ ~objs[o].args.initialized /\ sdkRet # 0)
        => /\ status = "exited"
           /\ exitCode = sdkRet
           /\ Len(objs[o].inits) = 1
           /\ Len(objs[o].inits[1].spawned) = 1
           /\ IsInitCmd(objs[o].inits[1].spawned[1])
           /\ ("initialized" \in DOMAIN objs[o].attrs => ~objs[o].attrs.initialized)

\* C8: constructing a settings object selects "docker" when `which docker`
\* prints a path ending in /docker that is not a symbolic link (and then
\* `which podman` is not run), else "podman" when `which podman` prints a path
\* ending in /podman that is not a symbolic link, else fails with the
\* runtime-detection error and no object; the probes never end the process.
Probed(cmd) == \E p \in 1..Len(procs) : procs[p].cmd = cmd
C8_RuntimeDetection ==
  \A o \in Objs :
     /\ status = "running"
     /\ dockerBin = "real"
           => /\ objs[o].constructed
              /\ objs[o].attrs.runtime = "docker"
              /\ ~Probed(WhichPodman)
     /\ (dockerBin # "real" /\ podmanBin = "real")
           => /\ objs[o].constructed
              /\ objs[o].attrs.runtime = "podman"
     /\ (dockerBin # "real" /\ podmanBin # "real")
           => /\ ~objs[o].constructed
              /\ objs[o].exc = "RuntimeError"

\* C9: every line a command produces is logged at DEBUG severity: once the
\* caller has consumed the sequence, each decoded line of the command's
\* output has a DEBUG record, and every line yielded was logged first.
C9_EveryLineLoggedAtDebug ==
  \A g \in Gens :
     Consumed(g)
        => /\ \A k \in 1..Len(Decoded(gens[g].cmd)) :
                 \E i \in 1..Len(log) :
                    /\ log[i].sev = DEBUG
                    /\ log[i].msg.tag = "Line"
                    /\ log[i].msg.cmd = gens[g].cmd
                    /\ log[i].msg.line = Decoded(gens[g].cmd)[k]
           /\ gens[g].yielded = Decoded(gens[g].cmd)

SinkKinds(hs) == [i \in 1..Len(hs) |-> hs[i].kind]
CountKind(hs, kind) == Cardinality({i \in 1..Len(hs) : hs[i].kind = kind})

\* C10: after every get_logger call the registry holds the single logger
\* 'Operator', which has exactly one console sink and at most one system-log
\* sink; a call made when the sinks are installed leaves the sequence of sinks
\* as it was; every call has returned the same logger object.
C10_NoDuplicateSinks ==
  [][ /\ Len(loggers') <= 1
      /\ \A i \in 1..Len(loggers') :
            /\ loggers'[i].name = "Operator"
            /\ CountKind(loggers'[i].handlers, "stderr") = 1
            /\ CountKind(loggers'[i].handlers, "syslog") <= 1
            /\ Len(loggers'[i].handlers) <= 2
      /\ \A i \in 1..Len(loggers) :
            SinkKinds(loggers'[i].handlers) = SinkKinds(loggers[i].handlers)
      /\ \A i, j \in 1..Len(returned') : returned'[i] = returned'[j]
    ]_vars

\* Two get_logger calls have returned, the second one having lowered the
\* console threshold to DEBUG, on a host with a system-log socket.
C10_Witness ==
  /\ Len(returned) >= 2
  /\ Len(loggers) = 1
  /\ Len(loggers[1].handlers) = 2
  /\ loggers[1].handlers[1].level = DEBUG
  /\ \A i \in 1..Len(log) : log[i].msg.tag # "argv"

\* The sinks of the logger 'Operator' (none before the first get_logger).
Handlers == IF Len(loggers) = 0 THEN <<>> ELSE loggers[1].handlers
\* The threshold the verbosity v stands for: 0 -> 40, 1 -> 30, 2 -> 20, and 10
\* from 3 on.
Threshold(v) == IF v >= 3 THEN 10 ELSE 40 - 10 * v

C12_LaterCallsOnlyRetuneConsole ==
  [][ /\ \A i \in 1..Len(Handlers') :
            Handlers'[i].kind = "syslog" => Handlers'[i].level = 20
      /\ \A args \in GetLoggerArgs :
            (Call_get_logger(args) /\ Len(args) > 0 /\ Len(Handlers) > 0)
               => /\ SinkKinds(Handlers') = SinkKinds(Handlers)
                  /\ \A i \in 2..Len(Handlers) : Handlers'[i] = Handlers[i]
                  /\ Handlers'[1].level =
                        IF Len(args) = 2
                        THEN 40 - 10 * (IF args[2] < 3 THEN args[2] ELSE 3)
                        ELSE Handlers[1].level
                  /\ log' = log
    ]_vars

\* Three get_logger calls have returned on a host with a system-log socket,
\* the last one with verbosity 1: console threshold 30, system-log still 20.
C12_Witness ==
  /\ Len(returned) = 3
  /\ Len(Handlers) = 2
  /\ Handlers[1].level = 30
  /\ Handlers[2].kind = "syslog"
  /\ Handlers[2].level = 20

\* C13: running the command-line entry point with -v given n times leaves the
\* console threshold at 40 - min(3, n) * 10.
C13_MainSetsThresholdFromVerbose ==
  [][ \A n \in 0..MaxVerbosity :
        Call_main(n)
           => /\ Len(Handlers') > 0
              /\ Handlers'[1].level = 40 - 10 * (IF n < 3 THEN n ELSE 3)
    ]_vars

\* C19 (as first stated): after any get_logger calls, with any integer
\* verbosity, negative ones included, or none, the console threshold is one
\* of 10, 20, 30, 40.
C19_ThresholdInRange ==
  Len(Handlers) > 0 => Handlers[1].level \in {10, 20, 30, 40}

\* C19 (amended): the console threshold is never below 10; a get_logger call
\* with a verbosity v >= 0 leaves it at one of 10, 20, 30, 40, and so does
\* a call without verbosity that installs the sinks; it is above 40 only by a
\* call with a negative verbosity v, which sets it to 40 - 10 * v.
C19_ThresholdAtLeastDebug ==
  [][ /\ Len(Handlers') > 0 => Handlers'[1].level >= 10
      /\ \A args \in GetLoggerArgs :
            (Call_get_logger(args) /\ Len(args) > 0)
               => /\ (Len(args) = 2 /\ args[2] >= 0)
                        => Handlers'[1].level \in {10, 20, 30, 40}
                  /\ (Len(args) = 1 /\ Len(Handlers) = 0)
                        => Handlers'[1].level = 40
                  /\ (Len(args) = 2 /\ args[2] < 0)
                        => Handlers'[1].level = 40 - 10 * args[2]
                  /\ (Len(args) = 1 /\ Len(Handlers) > 0)
                        => Handlers'[1].level = Handlers[1].level
    ]_vars

\* Two get_logger calls have returned, one of them with verbosity -1, and
\* the console threshold is 50.
C19_Witness ==
  /\ Len(returned) = 2
  /\ calls = 2
  /\ Handlers[1].level = 50

\* C14: on a host with a usable container runtime, when initialize_operator
\* is called on a settings object that is not initialized, the call issues the project-init command first, then exactly
\* one create-api command per kind in the order of the kind list, and
\* initialized is true afterwards.
C14_InitializeIssuesInOrder ==
  \A o \in Objs :
     (objs[o].n >= 1 /\ RuntimeUsable /\ ~objs[o].args.initialized)
        => /\ Len(objs[o].inits) >= 1
           /\ objs[o].inits[1].exc = None
           /\ IsScaffolding(objs[o].inits[1].issued, objs[o].args.kinds)
           /\ "initialized" \in DOMAIN objs[o].attrs
           /\ objs[o].attrs.initialized

\* C16: on a host with a usable container runtime, when initialize_operator
\* is called on a settings object that is not initialized, the project-init command it issues carries the settings'
\* domain as --domain and the create-api command for each kind k carries the
\* settings' API group as --group, API version as --version and k as --kind.
C16_CommandArguments ==
  \A o \in Objs :
     (objs[o].n >= 1 /\ RuntimeUsable /\ ~objs[o].args.initialized)
        => /\ Len(objs[o].inits) >= 1
           /\ Len(objs[o].inits[1].issued) = 1 + Len(objs[o].args.kinds)
           /\ objs[o].inits[1].issued[1] = InitCmd(objs[o].args.domain)
           /\ \A i \in 1..Len(objs[o].args.kinds) :
                 objs[o].inits[1].issued[i + 1] =
                    CreateApiCmd(objs[o].args.group, objs[o].args.api_version,
                                 objs[o].args.kinds[i])

\* The attribute each recognized key of the settings file is loaded into.
Attr(key) ==
  IF key = "default-sample" THEN "default_sample"
  ELSE IF key = "api-version" THEN "api_version"
  ELSE key
RecognizedKeys ==
  {"image", "version", "channels", "kinds", "default-sample", "domain",
   "group", "api-version"}

\* C15: on a host with a usable container runtime, loading a well-formed
\* document with any subset of the recognized keys does not raise and returns
\* a settings object whose attribute for each key present is the document's
\* value and whose attribute for each key absent is None.
C15_LoadFillsFields ==
  \A l \in 1..Len(loads) :
     RuntimeUsable
        => /\ loads[l].exc = None
           /\ \A key \in RecognizedKeys :
                 /\ Attr(key) \in DOMAIN loads[l].attrs
                 /\ key \in DOMAIN loads[l].doc
                       => loads[l].attrs[Attr(key)] = loads[l].doc[key]
                 /\ key \notin DOMAIN loads[l].doc
                       => loads[l].attrs[Attr(key)] = None

\* C18: a call of shell(cmd) that requests no element spawns no child process
\* and logs nothing, it only makes a generator that has not started; every
\* child process belongs to a generator whose first element was requested.
C18_ShellIsLazy ==
  [][ /\ \A cmd \in ClientCommands, fail \in BOOLEAN :
            Call_shell(cmd, fail)
               => /\ procs' = procs
                  /\ log' = log
                  /\ loggers' = loggers
                  /\ Len(gens') = Len(gens) + 1
                  /\ gens'[Len(gens')].pc = "created"
      /\ \A p \in 1..Len(procs') :
            \E g \in 1..Len(gens') :
               gens'[g].proc = p /\ gens'[g].pc # "created"
    ]_vars

\* shell has been called and no element requested: the generator has not
\* started, no child process exists and nothing has been logged.
C18_Witness ==
  /\ \E g \in Gens : gens[g].pc = "created" /\ gens[g].proc = 0
  /\ procs = <<>>
  /\ log = <<>>

Spec == Init /\ [][Next]_vars
====
